---- MODULE Spec2Model ----
(***************************************************************************)
(* A model of the RAM model cache of InvokeAI (multi-GPU branch):          *)
(*   - ModelCache (model_cache_default.py): the keyed records, the LRU     *)
(*     stack, make_room, and the execution-device reservations;            *)
(*   - ModelLocker (model_locker.py): lock / unlock of a cached record.    *)
(* Four specifications share the state: SpecCache runs the cache and       *)
(* locker operations as whole calls; SpecStats runs exists, put and get    *)
(* with a CacheStats object attached; SpecPut runs put, which takes no     *)
(* lock, also as a call that another thread overtakes between make_room    *)
(* and the store; SpecDevices runs reserve_execution_device of several     *)
(* threads step by step.                                                   *)
(***************************************************************************)
EXTENDS Integers, Sequences, FiniteSets, TLC

VARIABLES
    cached_models,      \* self._cached_models: canonical key -> record
    cache_stack,        \* self._cache_stack: keys, least recently used first
    stats,              \* self._stats: the CacheStats counters, or NoStats for None
    lockers,            \* the ModelLocker objects handed out by get
    detached,           \* records deleted from the cache that a locker still holds
    put_pending,        \* put calls that left make_room and have not stored yet
    result,             \* what the last cache / locker call did
    execution_devices,  \* self._execution_devices: device -> owning thread id, 0 = free
    free_permits,       \* value of self._free_execution_device (BoundedSemaphore)
    device_lock,        \* holder of self._device_lock, 0 = not held
    pc,                 \* where each thread stands in reserve_execution_device
    timeout,            \* the `timeout` argument of the reserve call in progress
    acquired,           \* what acquire(timeout=timeout) returned (the code drops it)
    scopes,             \* per thread: the devices yielded by its open `with` scopes
    outcome             \* how the last finished reserve / release call ended

cache_vars == <<cached_models, cache_stack, stats, lockers, detached,
                put_pending, result>>

device_vars == <<execution_devices, free_permits, device_lock, pc, timeout,
                 acquired, scopes, outcome>>
vars == <<cached_models, cache_stack, stats, lockers, detached, put_pending,
          result,
          execution_devices, free_permits, device_lock, pc, timeout,
          acquired, scopes, outcome>>

None == "None"

(***************************************************************************)
(* Inputs and bounds.                                                      *)
(***************************************************************************)
\* the (key, submodel_type) pairs the callers pass
KeyInputs == {<<"A", None>>, <<"B", None>>, <<"C", "vae">>}
\* what calc_model_size_by_data may return
Sizes == {40, 60, 120}
\* the cache budget in bytes (max_cache_size * GIG)
MaximumSize == 100
\* lock() is offered while a record's counter is below MaxLocks
MaxLocks == 2
\* unlock() is offered while a record's counter is above -MaxUnderflow
MaxUnderflow == 1
\* the hit / miss counters are followed up to MaxStat
MaxStat == 2
\* put calls that may stand between make_room and the store at one time
MaxPending == 1
\* scopes opened inside another scope of the same thread, over all threads
MaxNested == 1

Threads == {1, 2, 3}
\* the keys of self._execution_devices, in the dict's order
DeviceList == <<"cuda:0", "cuda:1">>
Devices == {DeviceList[i] : i \in 1..Len(DeviceList)}
\* the timeouts the callers pass: None (wait for ever) or a finite one
Timeouts == {None, "finite"}

(***************************************************************************)
(* Python list helpers.                                                    *)
(***************************************************************************)
InList(s, x) == \E i \in 1..Len(s) : s[i] = x

FirstIndex(s, x) == CHOOSE i \in 1..Len(s) : s[i] = x /\ \A j \in 1..(i-1) : s[j] # x

\* list.remove(x) on a list that holds x: the first occurrence goes
ListRemove(s, x) ==
    LET i == FirstIndex(s, x)
    IN  SubSeq(s, 1, i-1) \o SubSeq(s, i+1, Len(s))

\* [x for x, tid in self._execution_devices.items() if tid == who]
DevicesOf(table, who) ==
    SelectSeq(DeviceList, LAMBDA d : table[d] = who)

(***************************************************************************)
(* ModelCache: keys, sizes.                                                *)
(***************************************************************************)
MakeCacheKey(model_key, submodel_type) ==
    IF submodel_type # None THEN <<model_key, submodel_type>> ELSE <<model_key>>

RECURSIVE SumSizes(_, _)
SumSizes(models, ks) ==
    IF ks = {} THEN 0
    ELSE LET k == CHOOSE x \in ks : TRUE
         IN  models[k].size + SumSizes(models, ks \ {k})

CacheSize(models) == SumSizes(models, DOMAIN models)

\* a record as put builds it; the lock counter starts at 0
NewRecord(key, size) == [key |-> key, size |-> size, locks |-> 0, loaded |-> FALSE]

\* models without the entry of key
DictDel(models, key) == [k \in (DOMAIN models) \ {key} |-> models[k]]

\* models with key bound to rec
DictSet(models, key, rec) ==
    [k \in (DOMAIN models) \cup {key} |-> IF k = key THEN rec ELSE models[k]]

(***************************************************************************)
(* ModelCache._delete_cache_entry and ModelCache.make_room.  Both return   *)
(* the cache they leave behind and the exception they end with (None when  *)
(* they return normally).                                                  *)
(***************************************************************************)
DeleteCacheEntry(models, stack, key) ==
    IF ~InList(stack, key)
    THEN [models |-> models, stack |-> stack, exc |-> "ValueError"]
    ELSE IF key \notin DOMAIN models
    THEN [models |-> models, stack |-> ListRemove(stack, key), exc |-> "KeyError"]
    ELSE [models |-> DictDel(models, key), stack |-> ListRemove(stack, key),
          exc |-> None]

RECURSIVE MakeRoomLoop(_, _, _, _, _)
MakeRoomLoop(models, stack, current_size, bytes_needed, models_cleared) ==
    IF ~(current_size + bytes_needed > MaximumSize)
    THEN [models |-> models, stack |-> stack, exc |-> None,
          cleared |-> models_cleared]
    ELSE IF stack = <<>>
    THEN [models |-> models, stack |-> stack, exc |-> "IndexError",
          cleared |-> models_cleared]
    ELSE LET model_key == Head(stack)
             popped == Tail(stack)
         IN  IF model_key \notin DOMAIN models
             THEN [models |-> models, stack |-> popped, exc |-> "KeyError",
                   cleared |-> models_cleared]
             ELSE LET d == DeleteCacheEntry(models, popped, model_key)
                  IN  IF d.exc # None
                      THEN [models |-> d.models, stack |-> d.stack, exc |-> d.exc,
                            cleared |-> models_cleared + 1]
                      ELSE MakeRoomLoop(d.models, d.stack,
                                        current_size - models[model_key].size,
                                        bytes_needed, models_cleared + 1)

\* make_room as it would be with `>=` in its two tests of the budget
MakeRoom_EvictsAtBudget(models, stack, size) ==
    MakeRoomLoop(models, stack, CacheSize(models) + 1, size, 0)

MakeRoom(models, stack, size) ==
    MakeRoomLoop(models, stack, CacheSize(models), size, 0)

(***************************************************************************)
(* CacheStats, as ModelCache.get and ModelCache.make_room update it.       *)
(***************************************************************************)
NewStats == [attached |-> TRUE, hits |-> 0, misses |-> 0, high_watermark |-> 0,
             in_cache |-> 0, cleared |-> 0, cache_size |-> 0]

\* self._stats is None: `if self.stats:` fails and no counter is kept
NoStats == [NewStats EXCEPT !.attached = FALSE]

Max(a, b) == IF a >= b THEN a ELSE b

(***************************************************************************)
(* ModelCache.exists, ModelCache.put, ModelCache.get as functions of the   *)
(* cache they find; `key` is the canonical key.                            *)
(***************************************************************************)
ExistsEffect(models, key) == key \in DOMAIN models

PutEffect(models, stack, st, key, size) ==
    IF key \in DOMAIN models
    THEN [models |-> models, stack |-> stack, stats |-> st, exc |-> None]
    ELSE LET r == MakeRoom(models, stack, size)
         IN  IF r.exc # None
             THEN [models |-> r.models, stack |-> r.stack, stats |-> st,
                   exc |-> r.exc]
             ELSE [models |-> DictSet(r.models, key, NewRecord(key, size)),
                   stack |-> Append(r.stack, key),
                   stats |-> IF r.cleared > 0 /\ st.attached
                             THEN [st EXCEPT !.cleared = r.cleared] ELSE st,
                   exc |-> None]

\* get as it would be without the remove / append of the key
GetEffect_NoTouch(models, stack, st, key) ==
    IF key \notin DOMAIN models
    THEN [stack |-> stack,
          stats |-> IF st.attached THEN [st EXCEPT !.misses = @ + 1] ELSE st,
          exc |-> "IndexError"]
    ELSE [stack |-> stack,
          stats |-> IF st.attached THEN [st EXCEPT !.hits = @ + 1] ELSE st,
          exc |-> None]

\* get as it would be if a miss were raised before it is counted
GetEffect_MissUncounted(models, stack, st, key) ==
    IF key \notin DOMAIN models
    THEN [stack |-> stack, stats |-> st, exc |-> "IndexError"]
    ELSE [stack |-> Append(IF InList(stack, key) THEN ListRemove(stack, key)
                           ELSE stack, key),
          stats |-> IF st.attached THEN [st EXCEPT !.hits = @ + 1] ELSE st,
          exc |-> None]

GetEffect(models, stack, st, key) ==
    IF key \notin DOMAIN models
    THEN [stack |-> stack,
          stats |-> IF st.attached THEN [st EXCEPT !.misses = @ + 1] ELSE st,
          exc |-> "IndexError"]
    ELSE [stack |-> Append(IF InList(stack, key) THEN ListRemove(stack, key)
                           ELSE stack, key),
          stats |-> IF st.attached
                    THEN [st EXCEPT !.hits = @ + 1,
                                    !.cache_size = MaximumSize,
                                    !.high_watermark = Max(@, CacheSize(models)),
                                    !.in_cache = Cardinality(DOMAIN models)]
                    ELSE st,
          exc |-> None]

(***************************************************************************)
(* The record's lock counter.  ModelLocker calls cache_entry.lock() and    *)
(* cache_entry.unlock(); the record classes of model_cache_base.py do not  *)
(* define them, so the counter follows the design document: lock adds one, *)
(* unlock takes one away.  move_model_to_device is the document's          *)
(* materialize: it succeeds, or raises OutOfMemoryError or another error.  *)
(***************************************************************************)
RecordLock(rec) == [rec EXCEPT !.locks = @ + 1]

RecordUnlock(rec) == [rec EXCEPT !.locks = @ - 1]

MaterializeOutcomes == {"ok", "OutOfMemoryError", "RuntimeError"}

\* get_execution_device as it would be without the test of `assigned`,
\* handing out the first device of the table
GetExecutionDevice_AnyDevice(table, t) == [device |-> DeviceList[1], exc |-> None]

\* ModelCache.get_execution_device for thread t: the device or the error
GetExecutionDevice(table, t) ==
    LET assigned == DevicesOf(table, t)
    IN  IF assigned = <<>> THEN [device |-> None, exc |-> "ValueError"]
        ELSE [device |-> assigned[1], exc |-> None]

\* move_model_to_device is only reached by a thread that holds a device
MaterializeInputs(table, t) ==
    IF GetExecutionDevice(table, t).exc = None THEN MaterializeOutcomes ELSE {"ok"}

\* lock as it would be if `loaded = True` were set before the move
LockEffect_LoadedFirst(rec, table, t, materialize) ==
    LET locked == RecordLock(rec)
        dev == GetExecutionDevice(table, t)
    IN  IF dev.exc # None
        THEN [rec |-> RecordUnlock(locked), exc |-> dev.exc]
        ELSE IF materialize # "ok"
        THEN [rec |-> RecordUnlock([locked EXCEPT !.loaded = TRUE]),
              exc |-> materialize]
        ELSE [rec |-> [locked EXCEPT !.loaded = TRUE], exc |-> None]

\* lock as it would be without the unlock in its two except blocks
LockEffect_NoRollback(rec, table, t, materialize) ==
    LET locked == RecordLock(rec)
        dev == GetExecutionDevice(table, t)
    IN  IF dev.exc # None
        THEN [rec |-> locked, exc |-> dev.exc]
        ELSE IF materialize # "ok"
        THEN [rec |-> locked, exc |-> materialize]
        ELSE [rec |-> [locked EXCEPT !.loaded = TRUE], exc |-> None]

\* ModelLocker.lock by thread t on a locker's record
LockEffect(rec, table, t, materialize) ==
    LET locked == RecordLock(rec)
        dev == GetExecutionDevice(table, t)
    IN  IF dev.exc # None
        THEN [rec |-> RecordUnlock(locked), exc |-> dev.exc]
        ELSE IF materialize # "ok"
        THEN [rec |-> RecordUnlock(locked), exc |-> materialize]
        ELSE [rec |-> [locked EXCEPT !.loaded = TRUE], exc |-> None]

\* unlock as it would be without the call of the record's unlock
UnlockEffect_KeepsLock(rec) == rec

\* ModelLocker.unlock on a locker's record
UnlockEffect(rec) == RecordUnlock(rec)

(***************************************************************************)
(* The cache operations as actions.  A locker keeps its record alive: a    *)
(* record deleted from the cache while a locker holds it moves to          *)
(* `detached`, where lock and unlock still reach it.                       *)
(***************************************************************************)
Locker(key, live) == [key |-> key, live |-> live]

RecordOf(h) == IF h.live THEN cached_models[h.key] ELSE detached[h.key]

\* exists as it would be if it touched the recency list the way get does
Exists_Touches(model_key, submodel_type) ==
    LET key == MakeCacheKey(model_key, submodel_type)
    IN  /\ result' = [op |-> "exists", key |-> key, exc |-> None,
                      ret |-> IF ExistsEffect(cached_models, key) THEN "True"
                              ELSE "False"]
        /\ cache_stack' = IF InList(cache_stack, key)
                          THEN Append(ListRemove(cache_stack, key), key)
                          ELSE cache_stack
        /\ UNCHANGED <<cached_models, stats, lockers, detached, put_pending>>
        /\ UNCHANGED device_vars

Exists(model_key, submodel_type) ==
    LET key == MakeCacheKey(model_key, submodel_type)
    IN  /\ result' = [op |-> "exists", key |-> key, exc |-> None,
                      ret |-> IF ExistsEffect(cached_models, key) THEN "True"
                              ELSE "False"]
        /\ UNCHANGED <<cached_models, cache_stack, stats, lockers, detached,
                       put_pending>>
        /\ UNCHANGED device_vars

Put(model_key, submodel_type, size) ==
    LET key == MakeCacheKey(model_key, submodel_type)
        p == PutEffect(cached_models, cache_stack, stats, key, size)
        gone == {k \in (DOMAIN cached_models) \ (DOMAIN p.models) :
                    Locker(k, TRUE) \in lockers}
    IN  /\ cached_models' = p.models
        /\ cache_stack' = p.stack
        /\ stats' = p.stats
        /\ detached' = [k \in (DOMAIN detached) \cup gone |->
                          IF k \in gone THEN cached_models[k] ELSE detached[k]]
        /\ lockers' = {IF h.live /\ h.key \in gone THEN Locker(h.key, FALSE) ELSE h :
                          h \in lockers}
        /\ result' = [op |-> "put", key |-> key, exc |-> p.exc, ret |-> None]
        /\ UNCHANGED put_pending
        /\ UNCHANGED device_vars

\* put takes no lock: a thread may be overtaken after make_room (line 231)
\* and before it stores its record (lines 247-248).  PutMakeRoom is the
\* first half of such a call, PutStore the second.
PutMakeRoom(model_key, submodel_type, size) ==
    LET key == MakeCacheKey(model_key, submodel_type)
        r == MakeRoom(cached_models, cache_stack, size)
        gone == {k \in (DOMAIN cached_models) \ (DOMAIN r.models) :
                    Locker(k, TRUE) \in lockers}
    IN  /\ Cardinality(put_pending) < MaxPending
        /\ key \notin DOMAIN cached_models
        /\ r.exc = None
        /\ cached_models' = r.models
        /\ cache_stack' = r.stack
        /\ stats' = IF r.cleared > 0 /\ stats.attached
                    THEN [stats EXCEPT !.cleared = r.cleared] ELSE stats
        /\ detached' = [k \in (DOMAIN detached) \cup gone |->
                          IF k \in gone THEN cached_models[k] ELSE detached[k]]
        /\ lockers' = {IF h.live /\ h.key \in gone THEN Locker(h.key, FALSE) ELSE h :
                          h \in lockers}
        /\ put_pending' = put_pending \cup {[key |-> key, size |-> size]}
        /\ UNCHANGED result
        /\ UNCHANGED device_vars

PutStore(p) ==
    LET gone == {k \in {p.key} \cap DOMAIN cached_models :
                    Locker(k, TRUE) \in lockers}
    IN  /\ p \in put_pending
        /\ cached_models' = DictSet(cached_models, p.key, NewRecord(p.key, p.size))
        /\ cache_stack' = Append(cache_stack, p.key)
        /\ detached' = [k \in (DOMAIN detached) \cup gone |->
                          IF k \in gone THEN cached_models[k] ELSE detached[k]]
        /\ lockers' = {IF h.live /\ h.key \in gone THEN Locker(h.key, FALSE) ELSE h :
                          h \in lockers}
        /\ put_pending' = put_pending \ {p}
        /\ result' = [op |-> "put", key |-> p.key, exc |-> None, ret |-> None]
        /\ UNCHANGED stats
        /\ UNCHANGED device_vars

Get(model_key, submodel_type) ==
    LET key == MakeCacheKey(model_key, submodel_type)
        g == GetEffect(cached_models, cache_stack, stats, key)
    IN  /\ stats.attached => (stats.hits < MaxStat /\ stats.misses < MaxStat)
        /\ cache_stack' = g.stack
        /\ stats' = g.stats
        /\ lockers' = IF g.exc = None THEN lockers \cup {Locker(key, TRUE)}
                      ELSE lockers
        /\ result' = [op |-> "get", key |-> key, exc |-> g.exc,
                      ret |-> IF g.exc = None THEN "ModelLocker" ELSE None]
        /\ UNCHANGED <<cached_models, detached, put_pending>>
        /\ UNCHANGED device_vars

StoreRecord(h, rec) ==
    /\ cached_models' = IF h.live THEN [cached_models EXCEPT ![h.key] = rec]
                        ELSE cached_models
    /\ detached' = IF h.live THEN detached ELSE [detached EXCEPT ![h.key] = rec]

Lock(t, h, materialize) ==
    LET l == LockEffect(RecordOf(h), execution_devices, t, materialize)
    IN  /\ RecordOf(h).locks < MaxLocks
        /\ StoreRecord(h, l.rec)
        /\ result' = [op |-> "lock", key |-> h.key, exc |-> l.exc,
                      ret |-> IF l.exc = None THEN "model" ELSE None]
        /\ UNCHANGED <<cache_stack, stats, lockers, put_pending>>
        /\ UNCHANGED device_vars

Unlock(h) ==
    /\ RecordOf(h).locks > -MaxUnderflow
    /\ StoreRecord(h, UnlockEffect(RecordOf(h)))
    /\ result' = [op |-> "unlock", key |-> h.key, exc |-> None, ret |-> None]
    /\ UNCHANGED <<cache_stack, stats, lockers, put_pending>>
    /\ UNCHANGED device_vars

NextCache ==
    \/ \E i \in KeyInputs : Exists(i[1], i[2])
    \/ \E i \in KeyInputs, size \in Sizes : Put(i[1], i[2], size)
    \/ \E i \in KeyInputs : Get(i[1], i[2])
    \/ \E t \in Threads, h \in lockers :
          \E m \in MaterializeInputs(execution_devices, t) : Lock(t, h, m)
    \/ \E h \in lockers : Unlock(h)

\* the registry while thread 1 is inside `with reserve_execution_device()`
\* and holds the first device
ReservedByOne ==
    /\ execution_devices = [d \in Devices |-> IF d = DeviceList[1] THEN 1 ELSE 0]
    /\ free_permits = Len(DeviceList) - 1
    /\ device_lock = 0
    /\ pc = [t \in Threads |-> "idle"]
    /\ timeout = [t \in Threads |-> None]
    /\ acquired = [t \in Threads |-> "False"]
    /\ scopes = [t \in Threads |-> IF t = 1 THEN <<DeviceList[1]>> ELSE <<>>]
    /\ outcome = [how |-> "yield", acquired |-> "True"]

EmptyCache ==
    /\ cached_models = <<>>
    /\ cache_stack = <<>>
    /\ stats = NoStats
    /\ lockers = {}
    /\ detached = <<>>
    /\ put_pending = {}
    /\ result = [op |-> None, key |-> <<>>, exc |-> None, ret |-> None]

InitCache == EmptyCache /\ ReservedByOne

SpecCache == InitCache /\ [][NextCache]_vars

\* the `stats` setter: the caller attaches a fresh CacheStats object
SetStats ==
    /\ stats' = NewStats
    /\ result' = [op |-> "stats", key |-> <<>>, exc |-> None, ret |-> None]
    /\ UNCHANGED <<cached_models, cache_stack, lockers, detached, put_pending>>
    /\ UNCHANGED device_vars

\* the cache with statistics attached: exists, put and get as whole calls
NextStats ==
    \/ SetStats
    \/ \E i \in KeyInputs : Exists(i[1], i[2])
    \/ \E i \in KeyInputs, size \in Sizes : Put(i[1], i[2], size)
    \/ \E i \in KeyInputs : Get(i[1], i[2])

SpecStats == InitCache /\ [][NextStats]_vars

\* the callers of put and exists run in several threads, and neither call
\* takes a lock
NextPut ==
    \/ \E i \in KeyInputs : Exists(i[1], i[2])
    \/ \E i \in KeyInputs, size \in Sizes : Put(i[1], i[2], size)
    \/ \E i \in KeyInputs, size \in Sizes : PutMakeRoom(i[1], i[2], size)
    \/ \E p \in put_pending : PutStore(p)

SpecPut == InitCache /\ [][NextPut]_vars

(***************************************************************************)
(* ModelCache.reserve_execution_device, one thread's call step by step.    *)
(* A thread enters a `with self._device_lock` block in one step and runs   *)
(* and leaves it in the next; acquire() on the semaphore is a step of its  *)
(* own between the first two blocks.                                       *)
(***************************************************************************)
\* the first block as it would be without the look-up of the caller's device
AssignedDevice_Forgets(table, t) == None

\* the first block: the device already assigned to thread t, or None
AssignedDevice(table, t) ==
    LET assigned == DevicesOf(table, t)
    IN  IF assigned # <<>> THEN assigned[1] ELSE None

\* the second block as it would be with the `tid == 0` filter left out
AssignFreeDevice_AnyDevice(table, t) ==
    [table |-> [table EXCEPT ![DeviceList[1]] = t], device |-> DeviceList[1],
     exc |-> None]

\* the second block: the first free device goes to thread t
AssignFreeDevice(table, t) ==
    LET free_device == DevicesOf(table, 0)
    IN  IF free_device = <<>>
        THEN [table |-> table, device |-> None, exc |-> "IndexError"]
        ELSE [table |-> [table EXCEPT ![free_device[1]] = t],
              device |-> free_device[1], exc |-> None]

\* BoundedSemaphore.release
SemaphoreRelease(value) ==
    IF value >= Len(DeviceList)
    THEN [value |-> value, exc |-> "ValueError"]
    ELSE [value |-> value + 1, exc |-> None]

\* the finally block: the yielded device d is given back
ReleaseDevice(table, value, d) ==
    LET sem == SemaphoreRelease(value)
    IN  [table |-> [table EXCEPT ![d] = 0], value |-> sem.value, exc |-> sem.exc]

Top(s) == s[Len(s)]

Pop(s) == SubSeq(s, 1, Len(s) - 1)

\* the call ends: its locals are gone
EndCall(t, how) ==
    /\ pc' = [pc EXCEPT ![t] = "idle"]
    /\ timeout' = [timeout EXCEPT ![t] = None]
    /\ acquired' = [acquired EXCEPT ![t] = "False"]
    /\ outcome' = [how |-> how, acquired |-> acquired[t]]

RECURSIVE NestedScopes(_, _)
NestedScopes(open, ts) ==
    IF ts = {} THEN 0
    ELSE LET t == CHOOSE x \in ts : TRUE
         IN  (IF open[t] = <<>> THEN 0 ELSE Len(open[t]) - 1)
             + NestedScopes(open, ts \ {t})

Reserve(t, tmo) ==
    /\ pc[t] = "idle"
    /\ scopes[t] # <<>> => NestedScopes(scopes, Threads) < MaxNested
    /\ device_lock = 0
    /\ device_lock' = t
    /\ pc' = [pc EXCEPT ![t] = "check"]
    /\ timeout' = [timeout EXCEPT ![t] = tmo]
    /\ UNCHANGED <<execution_devices, free_permits, acquired, scopes, outcome>>
    /\ UNCHANGED cache_vars

\* line 155: `with self._device_lock:` is entered after acquire
EnterAssign(t) ==
    /\ pc[t] = "lock_assign"
    /\ device_lock = 0
    /\ device_lock' = t
    /\ pc' = [pc EXCEPT ![t] = "assign"]
    /\ UNCHANGED <<execution_devices, free_permits, timeout, acquired, scopes,
                   outcome>>
    /\ UNCHANGED cache_vars

\* lines 143-150, and the yield when a device was already assigned
CheckAssigned(t) ==
    /\ pc[t] = "check"
    /\ device_lock' = 0
    /\ LET found == AssignedDevice(execution_devices, t)
       IN  IF found # None
           THEN /\ scopes' = [scopes EXCEPT ![t] = Append(@, found)]
                /\ EndCall(t, "yield")
           ELSE /\ pc' = [pc EXCEPT ![t] = "acquire"]
                /\ UNCHANGED <<scopes, timeout, acquired, outcome>>
    /\ UNCHANGED <<execution_devices, free_permits>>
    /\ UNCHANGED cache_vars

\* line 154: acquire returns True with a permit
AcquirePermit(t) ==
    /\ pc[t] = "acquire"
    /\ free_permits > 0
    /\ free_permits' = free_permits - 1
    /\ acquired' = [acquired EXCEPT ![t] = "True"]
    /\ pc' = [pc EXCEPT ![t] = "lock_assign"]
    /\ UNCHANGED <<execution_devices, device_lock, timeout, scopes, outcome>>
    /\ UNCHANGED cache_vars

\* line 154: the timeout runs out with no permit free; acquire returns False
AcquireTimeout(t) ==
    /\ pc[t] = "acquire"
    /\ timeout[t] # None
    /\ free_permits = 0
    /\ acquired' = [acquired EXCEPT ![t] = "False"]
    /\ pc' = [pc EXCEPT ![t] = "lock_assign"]
    /\ UNCHANGED <<execution_devices, free_permits, device_lock, timeout, scopes,
                   outcome>>
    /\ UNCHANGED cache_vars

\* lines 155-166: a free device is assigned and yielded, or free_device[0] raises
AssignDevice(t) ==
    /\ pc[t] = "assign"
    /\ device_lock' = 0
    /\ LET a == AssignFreeDevice(execution_devices, t)
       IN  /\ execution_devices' = a.table
           /\ IF a.exc # None
              THEN /\ EndCall(t, a.exc)
                   /\ UNCHANGED scopes
              ELSE /\ scopes' = [scopes EXCEPT ![t] = Append(@, a.device)]
                   /\ EndCall(t, "yield")
    /\ UNCHANGED free_permits
    /\ UNCHANGED cache_vars

\* the body of the innermost open scope ends, normally or by an exception,
\* and the finally block enters `with self._device_lock:` (line 168)
LeaveScope(t, how) ==
    /\ pc[t] = "idle"
    /\ scopes[t] # <<>>
    /\ how \in {"normal", "raised"}
    /\ device_lock = 0
    /\ device_lock' = t
    /\ pc' = [pc EXCEPT ![t] = "release"]
    /\ UNCHANGED <<execution_devices, free_permits, timeout, acquired, scopes,
                   outcome>>
    /\ UNCHANGED cache_vars

\* lines 167-172: the finally block
Release(t) ==
    /\ pc[t] = "release"
    /\ device_lock' = 0
    /\ LET r == ReleaseDevice(execution_devices, free_permits, Top(scopes[t]))
       IN  /\ execution_devices' = r.table
           /\ free_permits' = r.value
           /\ EndCall(t, IF r.exc # None THEN r.exc ELSE "released")
    /\ scopes' = [scopes EXCEPT ![t] = Pop(@)]
    /\ UNCHANGED cache_vars

NextDevices ==
    \/ \E t \in Threads, tmo \in Timeouts : Reserve(t, tmo)
    \/ \E t \in Threads : CheckAssigned(t)
    \/ \E t \in Threads : AcquirePermit(t)
    \/ \E t \in Threads : AcquireTimeout(t)
    \/ \E t \in Threads : EnterAssign(t)
    \/ \E t \in Threads : AssignDevice(t)
    \/ \E t \in Threads, how \in {"normal", "raised"} : LeaveScope(t, how)
    \/ \E t \in Threads : Release(t)

\* the registry as ModelCache.__init__ builds it
AllDevicesFree ==
    /\ execution_devices = [d \in Devices |-> 0]
    /\ free_permits = Len(DeviceList)
    /\ device_lock = 0
    /\ pc = [t \in Threads |-> "idle"]
    /\ timeout = [t \in Threads |-> None]
    /\ acquired = [t \in Threads |-> "False"]
    /\ scopes = [t \in Threads |-> <<>>]
    /\ outcome = [how |-> None, acquired |-> "False"]

InitDevices == EmptyCache /\ AllDevicesFree

SpecDevices == InitDevices /\ [][NextDevices]_vars

(***************************************************************************)
(* Properties of the cache (checked under SpecCache).                      *)
(***************************************************************************)
Count(s, x) == Cardinality({i \in 1..Len(s) : s[i] = x})

Locked(models) == {k \in DOMAIN models : models[k].locks > 0}

\* C1: a record with active_locks > 0 is never removed from the store:
\* make_room passes over a locked record, so across every step a locked
\* record keeps its entry in the records map and its entry in the recency
\* list.
C1_LockedNeverRemoved ==
    [][\A k \in Locked(cached_models) :
          /\ k \in DOMAIN cached_models'
          /\ Count(cache_stack', k) >= Count(cache_stack, k)]_vars

\* C2: after every operation (no put stands between make_room and its
\* store) the sizes of the stored records sum to at most the budget, unless
\* the last operation was a put whose record could not be fitted even by
\* evicting every record that is not locked.
OverCommitExcused ==
    /\ result.op = "put"
    /\ result.exc = None
    /\ result.key \in DOMAIN cached_models
    /\ SumSizes(cached_models, Locked(cached_models) \cup {result.key})
         > MaximumSize

C2_BudgetRespected ==
    put_pending = {}
    => (CacheSize(cached_models) <= MaximumSize \/ OverCommitExcused)

\* C3: the recency list and the records map agree: every key of the map is
\* in the list exactly once, and the list holds no other key.
C3_StackAgrees ==
    /\ \A k \in DOMAIN cached_models : Count(cache_stack, k) = 1
    /\ \A i \in 1..Len(cache_stack) : cache_stack[i] \in DOMAIN cached_models

\* the sizes of the first n keys of the recency list
RECURSIVE PrefixSize(_, _, _)
PrefixSize(models, stack, n) ==
    IF n = 0 THEN 0
    ELSE models[stack[n]].size + PrefixSize(models, stack, n - 1)

\* n least recently used records are enough to make room for size
Frees(models, stack, size, n) ==
    CacheSize(models) - PrefixSize(models, stack, n) + size <= MaximumSize

\* C4: a put of a new record that can be fitted removes the least recently
\* used records, as few as make room, and stores the new record; with A(40)
\* and B(40) stored and A the more recently used, put C(40) leaves {A, C}.
C4_PutEvictsLeastRecentlyUsed ==
    [][/\ \A i \in KeyInputs, size \in Sizes :
            LET key == MakeCacheKey(i[1], i[2])
                fits == {n \in 0..Len(cache_stack) :
                            Frees(cached_models, cache_stack, size, n)}
            IN  ( /\ Put(i[1], i[2], size)
                  /\ key \notin DOMAIN cached_models
                  /\ C3_StackAgrees
                  /\ fits # {} )
                => LET n == CHOOSE m \in fits : \A o \in fits : m <= o
                       evicted == {cache_stack[j] : j \in 1..n}
                   IN  /\ result'.exc = None
                       /\ DOMAIN cached_models' =
                            ((DOMAIN cached_models) \ evicted) \cup {key}
                       /\ cached_models'[key].size = size
                       /\ cache_stack' =
                            Append(SubSeq(cache_stack, n + 1, Len(cache_stack)), key)
       /\ ( /\ DOMAIN cached_models = {<<"A">>, <<"B">>}
            /\ cached_models[<<"A">>].size = 40
            /\ cached_models[<<"B">>].size = 40
            /\ cache_stack = <<<<"B">>, <<"A">>>>
            /\ Put("C", "vae", 40) )
          => DOMAIN cached_models' = {<<"A">>, <<"C", "vae">>}
      ]_vars

\* C10: after put(k, m) the key is in the cache, and a put of a key that is
\* already there changes nothing: not the record, not the recency list, not
\* any other record.
C10_PutThenExists ==
    [][\A i \in KeyInputs, size \in Sizes :
          LET key == MakeCacheKey(i[1], i[2])
          IN  Put(i[1], i[2], size)
              => /\ ExistsEffect(cached_models', key)
                 /\ key \in DOMAIN cached_models
                      => UNCHANGED <<cached_models, cache_stack, stats, lockers,
                                     detached>>
      ]_vars

\* the last call was a lock of the key of h that returned the model and left
\* the record with one lock
JustLocked(h) ==
    /\ h.live
    /\ result.op = "lock"
    /\ result.key = h.key
    /\ result.exc = None
    /\ cached_models[h.key].locks = 1

C13_LocksNeverNegative ==
    /\ \A k \in DOMAIN cached_models : cached_models[k].locks >= 0
    /\ \A k \in DOMAIN detached : detached[k].locks >= 0

\* C14: unlock is idempotent: an unlock that follows the unlock that took the
\* last lock off the record is a no-op; the counter and the rest of the
\* cache stay as the first unlock left them.
C14_UnlockIdempotent ==
    [][\A h \in lockers :
          ( /\ Unlock(h)
            /\ h.live
            /\ result.op = "unlock"
            /\ result.key = h.key
            /\ cached_models[h.key].locks = 0 )
          => UNCHANGED <<cached_models, cache_stack, stats, lockers, detached>>
      ]_vars

C16_LockNeedsDevice ==
    [][\A t \in Threads, h \in lockers, m \in MaterializeOutcomes :
          Lock(t, h, m)
          => LET g == GetExecutionDevice(execution_devices, t)
             IN  IF \E d \in Devices : execution_devices[d] = t
                 THEN /\ g.exc = None
                      /\ execution_devices[g.device] = t
                      /\ result'.exc # "ValueError"
                 ELSE /\ g.exc = "ValueError"
                      /\ result'.exc = "ValueError"
                      /\ result'.ret = None
                      /\ h.live => cached_models'[h.key].loaded
                                      = cached_models[h.key].loaded
                      /\ ~h.live => detached'[h.key].loaded = detached[h.key].loaded
      ]_vars

\* a thread without a device has just called lock on a record never loaded
C16_Witness ==
    /\ result.op = "lock"
    /\ result.exc = "ValueError"
    /\ result.key \in DOMAIN cached_models
    /\ ~cached_models[result.key].loaded
    /\ Locker(result.key, TRUE) \in lockers

\* C18: a put of a new key always ends by storing its record, also when
\* make_room cannot free enough (the records left are locked, the store is
\* empty, the record alone is over the budget): the put goes on over budget
\* and does not fail.
C18_PutAlwaysStores ==
    [][\A i \in KeyInputs, size \in Sizes :
          LET key == MakeCacheKey(i[1], i[2])
          IN  (Put(i[1], i[2], size) /\ key \notin DOMAIN cached_models)
              => /\ result'.exc = None
                 /\ key \in DOMAIN cached_models'
                 /\ cached_models'[key].size = size
                 /\ Count(cache_stack', key) = 1
      ]_vars

\* the move to the device failed in the last call, a lock of the key of h
MaterializeFailed(h) ==
    /\ h.live
    /\ result.op = "lock"
    /\ result.key = h.key
    /\ result.exc \in MaterializeOutcomes \ {"ok"}

C17_GetCountsHitsAndMisses ==
    [][\A i \in KeyInputs :
          Get(i[1], i[2])
          => IF MakeCacheKey(i[1], i[2]) \notin DOMAIN cached_models
             THEN /\ result'.exc = "IndexError"
                  /\ UNCHANGED <<cached_models, cache_stack, lockers>>
                  /\ stats.attached => /\ stats'.misses = stats.misses + 1
                                        /\ stats'.hits = stats.hits
                  /\ ~stats.attached => stats' = stats
             ELSE /\ result'.exc = None
                  /\ stats.attached => /\ stats'.hits = stats.hits + 1
                                        /\ stats'.misses = stats.misses
                  /\ ~stats.attached => stats' = stats
      ]_vars

\* with statistics attached, a get has missed and a get has hit
C17_Witness ==
    /\ stats.attached
    /\ stats.misses = 1
    /\ stats.hits = 1
    /\ result.op = "get"

\* C19: exists is a membership test and nothing more: it answers whether the
\* key is in the records map and leaves the map, the recency list, the lock
\* counters and the statistics as they were, so the next record to evict
\* (the head of the recency list) is the same after it.
C19_ExistsIsPure ==
    [][\A i \in KeyInputs :
          Exists(i[1], i[2])
          => /\ result'.ret = "True"
                  <=> MakeCacheKey(i[1], i[2]) \in DOMAIN cached_models
             /\ result'.exc = None
             /\ UNCHANGED <<cached_models, cache_stack, stats, lockers, detached,
                            put_pending>>
      ]_vars

\* exists has just answered True, with statistics attached and two keys in
\* the recency list
C19_Witness ==
    /\ result.op = "exists"
    /\ result.ret = "True"
    /\ stats.attached
    /\ stats.hits > 0
    /\ Len(cache_stack) = 2

\* the keys of the list other than x, in the order of the list
Others(s, x) == SelectSeq(s, LAMBDA k : k # x)

\* C20: a get that returns has touched the recency list: the key is the last
\* (most recently used) entry, the other keys keep their order, and the
\* records map with every record's size is as it was.
C20_GetTouchesRecency ==
    [][\A i \in KeyInputs :
          LET key == MakeCacheKey(i[1], i[2])
          IN  (Get(i[1], i[2]) /\ result'.exc = None)
              => /\ cache_stack' # <<>>
                 /\ cache_stack'[Len(cache_stack')] = key
                 /\ Others(cache_stack', key) = Others(cache_stack, key)
                 /\ cached_models' = cached_models
      ]_vars

\* a get has returned with two keys in the recency list, its key the last
C20_Witness ==
    /\ result.op = "get"
    /\ result.exc = None
    /\ Len(cache_stack) = 2
    /\ cache_stack[2] = result.key
    /\ cache_stack[1] # result.key

\* the keys a step takes out of the recency list or out of the records map
Evicted ==
    {k \in DOMAIN cached_models :
        \/ k \notin DOMAIN cached_models'
        \/ InList(cache_stack, k) /\ ~InList(cache_stack', k)}

\* C22: with statistics attached the evictions counter counts the records
\* make_room removes: a put adds to `cleared` the number of records it
\* evicted, one for a put that evicts one record.
C22_ClearedCountsEvictions ==
    [][\A i \in KeyInputs, size \in Sizes :
          (Put(i[1], i[2], size) /\ stats.attached)
          => stats'.cleared = stats.cleared + Cardinality(Evicted)
      ]_vars

\* C25: when the bytes in the cache and the bytes needed are within the
\* budget, make_room evicts nothing: the records map, the recency list and
\* the evictions counter are as before, and a put that fits changes
\* nothing but to add its own record, at the tail of the recency list.
C25_FittingPutOnlyAdds ==
    [][\A i \in KeyInputs, size \in Sizes :
          LET key == MakeCacheKey(i[1], i[2])
          IN  ( /\ Put(i[1], i[2], size)
                /\ CacheSize(cached_models) + size <= MaximumSize )
              => /\ MakeRoom(cached_models, cache_stack, size)
                      = [models |-> cached_models, stack |-> cache_stack,
                         exc |-> None, cleared |-> 0]
                 /\ result'.exc = None
                 /\ stats'.cleared = stats.cleared
                 /\ IF key \in DOMAIN cached_models
                    THEN UNCHANGED <<cached_models, cache_stack>>
                    ELSE /\ cached_models'
                              = DictSet(cached_models, key, NewRecord(key, size))
                         /\ cache_stack' = Append(cache_stack, key)
      ]_vars

\* a put has just filled the budget to the last byte beside an older
\* record, with statistics attached
C25_Witness ==
    /\ stats.attached
    /\ result.op = "put"
    /\ result.exc = None
    /\ CacheSize(cached_models) = MaximumSize
    /\ Len(cache_stack) = 2
    /\ Top(cache_stack) = result.key
    /\ Cardinality(DOMAIN cached_models) = 2
    /\ stats.cleared = 0

(***************************************************************************)
(* Properties of put called from several threads (checked under SpecPut).  *)
(***************************************************************************)
\* C11: puts of one key from several threads come out as if they had run one
\* after the other: when a put stores its record, the key has exactly one
\* entry in the recency list, and a record another put stored under the key
\* in the meantime is not replaced.
C11_PutsLinearizable ==
    [][\A p \in put_pending :
          PutStore(p)
          => /\ Count(cache_stack', p.key) = 1
             /\ p.key \in DOMAIN cached_models
                  => cached_models'[p.key] = cached_models[p.key]]_vars

(***************************************************************************)
(* Properties of the device reservations (checked under SpecDevices).      *)
(***************************************************************************)
Owned(table) == {d \in Devices : table[d] # 0}

\* thread t leaves the block it is in and its call ends
CallEnds(t, from) == pc[t] = from /\ pc'[t] = "idle"

\* C5: each caller owns at most one device of the table (the table gives a
\* device one owner), and a step that gives a device to a caller finds that
\* device free.
C5_OneDevicePerOwner ==
    [][/\ \A t \in Threads : Len(DevicesOf(execution_devices', t)) <= 1
       /\ \A d \in Devices :
            (execution_devices'[d] # execution_devices[d]
               /\ execution_devices'[d] # 0)
            => execution_devices[d] = 0]_vars

\* every device is owned, each by another thread
C5_Witness ==
    /\ Owned(execution_devices) = Devices
    /\ \A d, e \in Devices : d # e => execution_devices[d] # execution_devices[e]

\* C6: a caller that owns a device and reserves again is yielded the device
\* it owns, without going to the semaphore: the permits and the table stay
\* as they are.
C6_ReentrantReserve ==
    [][\A t \in Threads, d \in Devices :
          (pc[t] = "check" /\ execution_devices[d] = t /\ pc'[t] # "check")
          => /\ pc'[t] = "idle"
             /\ scopes'[t] = Append(scopes[t], d)
             /\ free_permits' = free_permits
             /\ execution_devices' = execution_devices]_vars

\* a thread inside a nested scope: both scopes yielded the device it owns,
\* and one permit is gone
C6_Witness ==
    \E t \in Threads :
        /\ Len(scopes[t]) = 2
        /\ scopes[t][1] = scopes[t][2]
        /\ execution_devices[scopes[t][1]] = t
        /\ Owned(execution_devices) = {scopes[t][1]}
        /\ free_permits = Len(DeviceList) - 1

\* every device of the table is owned by a thread other than t
OwnedByOthers(t) == \A d \in Devices : execution_devices[d] \notin {0, t}

\* C7: a reserve with a finite timeout that finds every device owned by
\* other callers fails: its wait on the semaphore takes no permit, and the
\* call ends in the error with no device yielded, the table and the permits
\* as they were.
C7_TimeoutFails ==
    [][\A t \in Threads :
          /\ ( /\ pc[t] = "acquire"
                /\ pc'[t] # "acquire"
                /\ timeout[t] # None
                /\ OwnedByOthers(t) )
              => free_permits' = free_permits
          /\ ( /\ CallEnds(t, "assign")
                /\ timeout[t] # None
                /\ OwnedByOthers(t) )
              => /\ outcome'.how = "IndexError"
                 /\ scopes'[t] = scopes[t]
                 /\ execution_devices' = execution_devices
                 /\ free_permits' = free_permits]_vars

\* C8: leaving a scope clears the owner of the yielded device and gives a
\* permit back, so that the device is free for another caller.
C8_ExitReleases ==
    [][\A t \in Threads :
          CallEnds(t, "release")
          => /\ execution_devices'[Top(scopes[t])] = 0
             /\ free_permits' = free_permits + 1
             /\ outcome'.how = "released"]_vars

\* C9: no thread holds the device lock while it waits for a permit, and a
\* caller that waits without a timeout is yielded a device once it has its
\* permit: its call does not end in an error.
C9_WaiterGetsDevice ==
    [][/\ \A t \in Threads : pc[t] = "acquire" => device_lock # t
       /\ \A t \in Threads :
            (CallEnds(t, "assign") /\ timeout[t] = None)
            => /\ outcome'.how = "yield"
               /\ Len(scopes'[t]) = Len(scopes[t]) + 1]_vars

\* C23: while the outermost scope of a thread is open, nested scopes of
\* the thread having exited or not, the device it was yielded is the
\* thread's: get_execution_device returns it and no other thread has a
\* scope open on it.
C23_OwnedForWholeScope ==
    \A t \in Threads :
       scopes[t] # <<>>
       => /\ GetExecutionDevice(execution_devices, t).device = scopes[t][1]
          /\ \A u \in Threads \ {t} :
                \A n \in 1..Len(scopes[u]) : scopes[u][n] # scopes[t][1]

\* the threads between acquire and the assignment of the second block
BetweenAcquireAndAssign == {t \in Threads : pc[t] \in {"lock_assign", "assign"}}

\* C24: the permits are conserved: there are never more free permits than
\* devices and no release finds the semaphore full, and with no thread
\* between acquire and its assignment the free permits are as many as the
\* devices nobody owns.
C24_PermitsConserved ==
    /\ free_permits <= Len(DeviceList)
    /\ outcome.how # "ValueError"
    /\ BetweenAcquireAndAssign = {}
       => free_permits = Len(DevicesOf(execution_devices, 0))

====
